---- MODULE Spec2Model ----
(***************************************************************************)
(* A state-machine model of the MGNREGA dashboard (src/src/App.js): the    *)
(* App root (language flag, routes), the Dashboard page (district          *)
(* selection, district data fetch with sample fallback, geolocation        *)
(* detection), the StateComparison page, the Compare page and the number   *)
(* formatter.                                                              *)
(*                                                                         *)
(* Conventions.  JavaScript strings are TLA+ strings.  The module is kept  *)
(* in ASCII, so the non-ASCII glyphs of the source are written as ASCII    *)
(* stand-ins: the em dash is "--" and every Hindi label is the ASCII       *)
(* transliteration of the source's Devanagari text.  JavaScript null and   *)
(* undefined are the values Null and Undefined.  A JSON object whose       *)
(* fields may be absent is a function whose DOMAIN holds the fields that   *)
(* are present.                                                            *)
(***************************************************************************)
EXTENDS Integers, Sequences, FiniteSets, TLC

VARIABLES
    lang,          \* App: useState('en')
    route,         \* the path the Router shows
    district,      \* Dashboard: useState("")
    districtInfo,  \* Dashboard: useState(null)
    timeseries,    \* Dashboard: useState(SAMPLE_TIMESERIES)
    geolocation,   \* whether navigator.geolocation exists on this device
    inflight,      \* outstanding asynchronous requests (position, geocode, data)
    nextAct,       \* number of the next request-issuing user action
    notice,        \* text of the alert() raised by the last step, "" if none
    selectedYears, \* StateComparison: useState(['2023-24', '2024-25'])
    data,          \* StateComparison: useState({})
    d1,            \* Compare: useState("")
    d2,            \* Compare: useState("")
    fmtIn,         \* argument handed to formatNumber
    fmtOut         \* what formatNumber returned for it

vars == <<lang, route, district, districtInfo, timeseries, geolocation, inflight,
          nextAct, notice, selectedYears, data, d1, d2, fmtIn, fmtOut>>

appVars == <<lang, route>>
dashVars == <<district, districtInfo, timeseries>>
stateCmpVars == <<selectedYears, data>>
compareVars == <<d1, d2>>
fmtVars == <<fmtIn, fmtOut>>

\* ------------------------------------------------------------------ bounds
\* At most this many request-issuing user actions (a district selection, a
\* press of "Detect my district") in one behaviour.
MaxActions == 2

\* In the full specification the user picks, in a district <select>, the empty
\* option or one of the first MaxOption districts of the list.
MaxOption == 2

\* ------------------------------------------------------------- JS values
\* null and undefined are records, so that they compare with objects.
Null == [js |-> "null"]
Undefined == [js |-> "undefined"]
EmptyObject == [k \in {} |-> Undefined]

Range(s) == {s[i] : i \in 1..Len(s)}

Min(S) == CHOOSE x \in S : \A y \in S : x <= y

\* Array.prototype.find, given the positions `hits` of the elements the
\* predicate accepts: the first of them in list order, undefined when none.
Find(list, hits) == IF hits = {} THEN Undefined ELSE list[Min(hits)]

\* obj.field of a JSON object: undefined when the field is absent.
Prop(obj, field) == IF field \in DOMAIN obj THEN obj[field] ELSE Undefined

\* ------------------------------------------------------------- mock data
SAMPLE_DISTRICTS == <<
    [district_code |-> "0501", district_name |-> "PATNA"],
    [district_code |-> "0502", district_name |-> "NALANDA"],
    [district_code |-> "0506", district_name |-> "JEHANABAD"],
    [district_code |-> "0518", district_name |-> "SAMASTIPUR"],
    [district_code |-> "0544", district_name |-> "SUPAUL"],
    [district_code |-> "0504", district_name |-> "ROHTAS"],
    [district_code |-> "0508", district_name |-> "NAWADA"],
    [district_code |-> "0513", district_name |-> "PURBI CHAMPARAN"],
    [district_code |-> "0520", district_name |-> "MADHUBANI"],
    [district_code |-> "0541", district_name |-> "ARARIA"] >>

SAMPLE_TIMESERIES == <<
    [month |-> "Apr", households |-> 90000, persondays |-> 300000, expenditure |-> 12000],
    [month |-> "May", households |-> 92000, persondays |-> 320000, expenditure |-> 13000],
    [month |-> "Jun", households |-> 87000, persondays |-> 310000, expenditure |-> 12500],
    [month |-> "Jul", households |-> 94000, persondays |-> 330000, expenditure |-> 14000],
    [month |-> "Aug", households |-> 96000, persondays |-> 340000, expenditure |-> 15000],
    [month |-> "Sep", households |-> 88000, persondays |-> 300000, expenditure |-> 11800],
    [month |-> "Oct", households |-> 91000, persondays |-> 315000, expenditure |-> 12700],
    [month |-> "Nov", households |-> 93000, persondays |-> 325000, expenditure |-> 13200],
    [month |-> "Dec", households |-> 87155, persondays |-> 3443327, expenditure |-> 15209] >>

\* The option values of the district <select>: "" and every district code.
DistrictCodes == {SAMPLE_DISTRICTS[i].district_code : i \in 1..Len(SAMPLE_DISTRICTS)}
SelectOptions == {""} \cup DistrictCodes

\* The options the user picks among in the full specification.
UserOptions ==
    {""} \cup {SAMPLE_DISTRICTS[i].district_code : i \in 1..Min({MaxOption, Len(SAMPLE_DISTRICTS)})}

\* ------------------------------------------------------ external inputs
\* What the backend may answer to GET /api/data/{code} (the backend is not part
\* of the repository, so the body is an input): a full payload, or a payload
\* without a "timeseries" field.  The payloads of two districts differ.
RowOf(code) == Min({i \in 1..Len(SAMPLE_DISTRICTS) : SAMPLE_DISTRICTS[i].district_code = code})

ServerKpis(code) ==
    [district_name |-> SAMPLE_DISTRICTS[RowOf(code)].district_name,
     Total_Individuals_Worked |-> 100000 * RowOf(code) + 4999,
     Total_Exp |-> 1000 * RowOf(code),
     Average_days_of_employment_provided_per_Household |-> 30 + RowOf(code)]

ServerSeries(code) ==
    << [month |-> "Apr", households |-> 100 * RowOf(code),
        persondays |-> 1000 * RowOf(code), expenditure |-> 10 * RowOf(code)] >>

Payloads ==
    [code \in DistrictCodes |->
        { [kpis |-> ServerKpis(code), timeseries |-> ServerSeries(code)],
          [kpis |-> ServerKpis(code)] }]

Responses(code) == Payloads[code]

\* Why fetch(...).then(res => res.json()).then(...) ends in the catch handler:
\* fetch rejects, res.json() rejects, or the body is JSON null (data.kpis throws).
FetchFailures == {"network error", "non-JSON body", "null body"}

\* -------------------------------------------------------------- Dashboard
\* An outstanding request.  act: the user action it was issued for; kind:
\* "position" (getCurrentPosition), "geocode" (reverse-geocoding fetch) or "data"
\* (district data fetch); code: the district the effect closed over; live:
\* whether the Dashboard instance whose setters the callbacks hold is mounted
\* (React drops a state update of an unmounted component).
DataRequest(act, code) == [act |-> act, kind |-> "data", code |-> code, live |-> TRUE]
PositionRequest(act) == [act |-> act, kind |-> "position", code |-> "", live |-> TRUE]
GeocodeRequest(r) == [r EXCEPT !.kind = "geocode"]

\* The outstanding requests of one kind.
Outstanding(kind) == {r \in inflight : r.kind = kind}

\* Faulty variant of EffectRequests: the effect skips the fetch when the held
\* snapshot already is that district's (a cache across selections).
EffectRequestsCached(act, code) ==
    IF code = "" THEN {}
    ELSE IF /\ "district_name" \in DOMAIN districtInfo
            /\ \E i \in 1..Len(SAMPLE_DISTRICTS) :
                  /\ SAMPLE_DISTRICTS[i].district_code = code
                  /\ SAMPLE_DISTRICTS[i].district_name = districtInfo.district_name
         THEN {}
         ELSE {DataRequest(act, code)}

\* useEffect(..., [district]) after a render in which district became `code`:
\* nothing for "", otherwise one fetch for that code.
EffectRequests(act, code) == IF code = "" THEN {} ELSE {DataRequest(act, code)}

\* The snapshot the catch handler builds; `code` is the district the effect
\* closed over.  100.74 is kept as the pair of its integer and hundredths.
FallbackInfo(code) ==
    LET hit == Find(SAMPLE_DISTRICTS,
                    {i \in 1..Len(SAMPLE_DISTRICTS) : SAMPLE_DISTRICTS[i].district_code = code})
    IN  [district_name |-> IF hit = Undefined THEN "Unknown" ELSE hit.district_name,
         Total_Individuals_Worked |-> 90928,
         Total_Households_Worked |-> 87155,
         Total_Exp |-> 15209,
         Women_Persondays |-> 1696959,
         Average_days_of_employment_provided_per_Household |-> 39,
         percentage_payments_gererated_within_15_days |-> <<100, 74>>]

FetchFailedNotice == "Failed to fetch live data, showing sample instead."

\* Faulty variant of SelectDistrict: the selection also clears the held data
\* (snapshot back to null, series back to the sample) while the request is out.
SelectDistrictClears(code) ==
    /\ route = "/"
    /\ code \in SelectOptions \ {district}
    /\ code # "" => nextAct <= MaxActions
    /\ district' = code
    /\ inflight' = inflight \cup EffectRequests(nextAct, code)
    /\ nextAct' = IF code = "" THEN nextAct ELSE nextAct + 1
    /\ notice' = ""
    /\ districtInfo' = Null
    /\ timeseries' = SAMPLE_TIMESERIES
    /\ UNCHANGED geolocation
    /\ UNCHANGED <<appVars, stateCmpVars, compareVars, fmtVars>>

\* onChange of the district <select>: setDistrict(e.target.value), then the effect.
SelectDistrict(code) ==
    /\ route = "/"
    /\ code \in SelectOptions \ {district}
    /\ code # "" => nextAct <= MaxActions
    /\ district' = code
    /\ inflight' = inflight \cup EffectRequests(nextAct, code)
    /\ nextAct' = IF code = "" THEN nextAct ELSE nextAct + 1
    /\ notice' = ""
    /\ UNCHANGED <<districtInfo, timeseries, geolocation>>
    /\ UNCHANGED <<appVars, stateCmpVars, compareVars, fmtVars>>

\* Faulty variant of FetchSuccess: a response for a district that is no longer
\* the selected one is dropped.
FetchSuccessIfSelected(r, body) ==
    /\ r \in inflight /\ r.kind = "data"
    /\ body \in Responses(r.code)
    /\ inflight' = inflight \ {r}
    /\ IF r.live /\ r.code = district
       THEN /\ districtInfo' = Prop(body, "kpis")
            /\ timeseries' = IF "timeseries" \in DOMAIN body THEN body.timeseries ELSE << >>
       ELSE UNCHANGED <<districtInfo, timeseries>>
    /\ notice' = ""
    /\ UNCHANGED <<district, geolocation, nextAct>>
    /\ UNCHANGED <<appVars, stateCmpVars, compareVars, fmtVars>>

\* .then(data => { setDistrictInfo(data.kpis); setTimeseries(data.timeseries || []) })
FetchSuccess(r, body) ==
    /\ r \in inflight /\ r.kind = "data"
    /\ body \in Responses(r.code)
    /\ inflight' = inflight \ {r}
    /\ IF r.live
       THEN /\ districtInfo' = Prop(body, "kpis")
            /\ timeseries' = IF "timeseries" \in DOMAIN body THEN body.timeseries ELSE << >>
       ELSE UNCHANGED <<districtInfo, timeseries>>
    /\ notice' = ""
    /\ UNCHANGED <<district, geolocation, nextAct>>
    /\ UNCHANGED <<appVars, stateCmpVars, compareVars, fmtVars>>

\* Faulty variant of FetchFail: the catch handler forgets setTimeseries.
FetchFailKeepsSeries(r, cause) ==
    /\ r \in inflight /\ r.kind = "data"
    /\ cause \in FetchFailures
    /\ inflight' = inflight \ {r}
    /\ notice' = FetchFailedNotice
    /\ IF r.live
       THEN districtInfo' = FallbackInfo(r.code)
       ELSE UNCHANGED districtInfo
    /\ UNCHANGED <<district, timeseries, geolocation, nextAct>>
    /\ UNCHANGED <<appVars, stateCmpVars, compareVars, fmtVars>>

\* .catch(err => { alert(...); setDistrictInfo({...}); setTimeseries(SAMPLE_TIMESERIES) })
FetchFail(r, cause) ==
    /\ r \in inflight /\ r.kind = "data"
    /\ cause \in FetchFailures
    /\ inflight' = inflight \ {r}
    /\ notice' = FetchFailedNotice
    /\ IF r.live
       THEN /\ districtInfo' = FallbackInfo(r.code)
            /\ timeseries' = SAMPLE_TIMESERIES
       ELSE UNCHANGED <<districtInfo, timeseries>>
    /\ UNCHANGED <<district, geolocation, nextAct>>
    /\ UNCHANGED <<appVars, stateCmpVars, compareVars, fmtVars>>

\* ------------------------------------------------------ string primitives
LowerCase == "abcdefghijklmnopqrstuvwxyz"
UpperCase == "ABCDEFGHIJKLMNOPQRSTUVWXYZ"

CharAt(s, i) == SubSeq(s, i, i)

\* One character upper-cased: a lower-case ASCII letter becomes its capital,
\* every other character stays.
UpperChar(c) ==
    LET at == {i \in 1..Len(LowerCase) : CharAt(LowerCase, i) = c}
    IN  IF at = {} THEN c ELSE CharAt(UpperCase, Min(at))

\* String.prototype.toUpperCase
RECURSIVE toUpperCase(_)
toUpperCase(s) ==
    IF Len(s) = 0 THEN "" ELSE UpperChar(CharAt(s, 1)) \o toUpperCase(SubSeq(s, 2, Len(s)))

\* String.prototype.includes: `part` occurs in `s` as a substring.
includes(s, part) ==
    \E i \in 1..(Len(s) - Len(part) + 1) : SubSeq(s, i, i + Len(part) - 1) = part

\* s.split(' ')[0]: the characters before the first space, all of s without one.
FirstToken(s) ==
    LET spaces == {i \in 1..Len(s) : CharAt(s, i) = " "}
    IN  IF spaces = {} THEN s ELSE SubSeq(s, 1, Min(spaces) - 1)

\* --------------------------------------------------- geolocation detection
\* What the reverse-geocoding service may answer (an input): JSON objects with
\* some of the fields locality, city, principalSubdivision.
GeoBodies ==
    { [locality |-> "PATNA DIVISION"],
      [locality |-> "UNKNOWNPLACE"],
      [locality |-> "Nalanda"],
      [locality |-> "Nawada near Patna"],
      [locality |-> "Purbi"],
      [locality |-> "", city |-> "Champaran"],
      [principalSubdivision |-> "Bihar"],
      [city |-> "", principalSubdivision |-> "Supaulganj"],
      EmptyObject }

\* Why the try block of the position callback ends in its catch handler: fetch
\* rejects, res.json() rejects, the body is JSON null (jd.locality throws), or
\* the locality is not a string (locality.toUpperCase is not a function).
GeocodeFailures == {"network error", "non-JSON body", "null body", "locality not a string"}

\* A string field of the body; an absent field (undefined) reads as "", which
\* is falsy like undefined, and the code only tests these fields for truthiness.
TextField(jd, field) == IF field \in DOMAIN jd THEN jd[field] ELSE ""

\* a || b on strings
OrElse(a, b) == IF a # "" THEN a ELSE b

\* jd.locality || jd.city || jd.principalSubdivision
LocalityOf(jd) ==
    OrElse(OrElse(TextField(jd, "locality"), TextField(jd, "city")),
           TextField(jd, "principalSubdivision"))

\* Faulty variant of Matches: the locality is not upper-cased.
MatchesCaseSensitive(locality, d) ==
    /\ locality # ""
    /\ includes(locality, FirstToken(d.district_name))

\* d => locality && locality.toUpperCase().includes(d.district_name.split(' ')[0])
Matches(locality, d) ==
    /\ locality # ""
    /\ includes(toUpperCase(locality), FirstToken(d.district_name))

\* SAMPLE_DISTRICTS.find(...): the matching district, or Undefined.
MatchDistrict(locality) ==
    Find(SAMPLE_DISTRICTS,
         {i \in 1..Len(SAMPLE_DISTRICTS) : Matches(locality, SAMPLE_DISTRICTS[i])})

\* The match for each body the service may answer with (computed once).
MatchFor == [jd \in GeoBodies |-> MatchDistrict(LocalityOf(jd))]

NoGeolocationNotice == "Geolocation not available on this device"
PositionDeniedNotice == "Location permission denied or unavailable"
NoMatchNotice == "Could not auto-detect district. Please select from list."
DetectFailedNotice == "Auto-detect failed -- please select manually."

\* onClick of "Detect my district": handleDetect up to getCurrentPosition.
Detect ==
    /\ route = "/"
    /\ IF ~geolocation
       THEN /\ notice' = NoGeolocationNotice
            /\ UNCHANGED <<inflight, nextAct>>
       ELSE /\ nextAct <= MaxActions
            /\ inflight' = inflight \cup {PositionRequest(nextAct)}
            /\ nextAct' = nextAct + 1
            /\ notice' = ""
    /\ UNCHANGED <<dashVars, geolocation>>
    /\ UNCHANGED <<appVars, stateCmpVars, compareVars, fmtVars>>

\* Faulty variant of PositionError: on denial the first district of the list
\* is selected as a fallback, and its effect fetches.
PositionErrorFallback(r) ==
    /\ r \in inflight /\ r.kind = "position"
    /\ notice' = PositionDeniedNotice
    /\ IF r.live /\ district # SAMPLE_DISTRICTS[1].district_code
       THEN /\ district' = SAMPLE_DISTRICTS[1].district_code
            /\ inflight' = (inflight \ {r}) \cup
                               EffectRequests(r.act, SAMPLE_DISTRICTS[1].district_code)
       ELSE /\ inflight' = inflight \ {r}
            /\ UNCHANGED district
    /\ UNCHANGED <<districtInfo, timeseries, geolocation, nextAct>>
    /\ UNCHANGED <<appVars, stateCmpVars, compareVars, fmtVars>>

\* The error callback of getCurrentPosition.
PositionError(r) ==
    /\ r \in inflight /\ r.kind = "position"
    /\ inflight' = inflight \ {r}
    /\ notice' = PositionDeniedNotice
    /\ UNCHANGED <<dashVars, geolocation, nextAct>>
    /\ UNCHANGED <<appVars, stateCmpVars, compareVars, fmtVars>>

\* The success callback of getCurrentPosition up to its first await: the
\* reverse-geocoding fetch is issued.
PositionSuccess(r) ==
    /\ r \in inflight /\ r.kind = "position"
    /\ inflight' = (inflight \ {r}) \cup {GeocodeRequest(r)}
    /\ notice' = ""
    /\ UNCHANGED <<dashVars, geolocation, nextAct>>
    /\ UNCHANGED <<appVars, stateCmpVars, compareVars, fmtVars>>

\* Faulty variant of GeocodeResolve: the district is set, and its effect
\* fetches, while the reverse-geocoding request is still outstanding.
GeocodeResolveEarly(r, jd) ==
    /\ r \in inflight /\ r.kind = "geocode"
    /\ jd \in GeoBodies
    /\ LET match == MatchFor[jd]
       IN  IF match = Undefined
           THEN /\ notice' = NoMatchNotice
                /\ inflight' = inflight \ {r}
                /\ UNCHANGED district
           ELSE /\ notice' = ""
                /\ IF r.live /\ match.district_code # district
                   THEN /\ district' = match.district_code
                        /\ inflight' = inflight \cup EffectRequests(r.act, match.district_code)
                   ELSE /\ inflight' = inflight \ {r}
                        /\ UNCHANGED district
    /\ UNCHANGED <<districtInfo, timeseries, geolocation, nextAct>>
    /\ UNCHANGED <<appVars, stateCmpVars, compareVars, fmtVars>>

\* The rest of the try block once the body jd has been read: match and, on a
\* match, setDistrict(match.district_code) followed by the [district] effect.
GeocodeResolve(r, jd) ==
    /\ r \in inflight /\ r.kind = "geocode"
    /\ jd \in GeoBodies
    /\ LET match == MatchFor[jd]
       IN  IF match = Undefined
           THEN /\ notice' = NoMatchNotice
                /\ inflight' = inflight \ {r}
                /\ UNCHANGED district
           ELSE /\ notice' = ""
                /\ IF r.live /\ match.district_code # district
                   THEN /\ district' = match.district_code
                        /\ inflight' = (inflight \ {r}) \cup
                                           EffectRequests(r.act, match.district_code)
                   ELSE /\ inflight' = inflight \ {r}
                        /\ UNCHANGED district
    /\ UNCHANGED <<districtInfo, timeseries, geolocation, nextAct>>
    /\ UNCHANGED <<appVars, stateCmpVars, compareVars, fmtVars>>

\* The catch handler of the position callback.
GeocodeFail(r, cause) ==
    /\ r \in inflight /\ r.kind = "geocode"
    /\ cause \in GeocodeFailures
    /\ inflight' = inflight \ {r}
    /\ notice' = DetectFailedNotice
    /\ UNCHANGED <<dashVars, geolocation, nextAct>>
    /\ UNCHANGED <<appVars, stateCmpVars, compareVars, fmtVars>>

\* -------------------------------------------------------- StateComparison
Years == {"2023-24", "2024-25"}

\* SAMPLE_TIMESERIES.map(d => ({...d, persondays: d.persondays + 5000,
\*                               expenditure: d.expenditure + 1000}))
NextYearSeries ==
    [i \in 1..Len(SAMPLE_TIMESERIES) |->
        [SAMPLE_TIMESERIES[i] EXCEPT !.persondays = @ + 5000, !.expenditure = @ + 1000]]

mockStateData == [y \in Years |-> IF y = "2023-24" THEN SAMPLE_TIMESERIES ELSE NextYearSeries]

months == <<"Apr", "May", "Jun", "Jul", "Aug", "Sep", "Oct", "Nov", "Dec", "Jan", "Feb", "Mar">>

InitialYears == <<"2023-24", "2024-25">>

\* Faulty variant of ExpenditureOf: a missing month is not defaulted to 0 but
\* takes the year's first entry.
ExpenditureOfNoDefault(held, year, month) ==
    IF year \notin DOMAIN held THEN 0
    ELSE LET hit == Find(held[year],
                         {i \in 1..Len(held[year]) : held[year][i].month = month})
         IN  IF hit = Undefined THEN held[year][1].expenditure ELSE hit.expenditure

\* data[year]?.find(m => m.month === month)?.expenditure || 0
ExpenditureOf(held, year, month) ==
    IF year \notin DOMAIN held THEN 0
    ELSE LET hit == Find(held[year],
                         {i \in 1..Len(held[year]) : held[year][i].month = month})
         IN  IF hit = Undefined THEN 0 ELSE hit.expenditure

\* months.map(month => { const point = { month }; selectedYears.forEach(...); return point })
\* A row is the object with the key "month" and one key per selected year.
combinedData(years, held) ==
    [i \in 1..Len(months) |->
        [k \in {"month"} \cup Range(years) |->
            IF k = "month" THEN months[i] ELSE ExpenditureOf(held, k, months[i])]]

\* The first render of StateComparison has happened and its mount effect,
\* useEffect(() => setData(mockStateData), []), has not run yet.
EffectPending == route = "/state-comparison" /\ data = EmptyObject

StateComparisonEffect ==
    /\ EffectPending
    /\ data' = mockStateData
    /\ notice' = ""
    /\ UNCHANGED <<selectedYears, dashVars, geolocation, inflight, nextAct>>
    /\ UNCHANGED <<appVars, compareVars, fmtVars>>

\* handleYearChange for the checkbox of `year`; a click flips the box, so
\* `checked` is the opposite of what the box showed.
ToggleYear(year) ==
    /\ route = "/state-comparison" /\ ~EffectPending
    /\ year \in DOMAIN mockStateData
    /\ LET checked == year \notin Range(selectedYears)
       IN  selectedYears' = IF checked THEN Append(selectedYears, year)
                            ELSE SelectSeq(selectedYears, LAMBDA y : y # year)
    /\ notice' = ""
    /\ UNCHANGED <<data, dashVars, geolocation, inflight, nextAct>>
    /\ UNCHANGED <<appVars, compareVars, fmtVars>>

\* ----------------------------------------------------------------- Compare
DigitChars == "0123456789"

\* parseInt of a one-character string that is a decimal digit.
DigitValue(c) == Min({i \in 1..Len(DigitChars) : CharAt(DigitChars, i) = c}) - 1

\* Math.round(a / b) for integers a >= 0, b > 0: the nearest integer, a half
\* rounding up.
RoundDiv(a, b) == (2 * a + b) \div (2 * b)

\* Faulty variant of Factor: the digit before the last one is taken
\* (code.slice(-2, -1)).
FactorOfTens(code) ==
    IF code = "" THEN 10 ELSE (DigitValue(CharAt(code, Len(code) - 1)) % 5) + 8

\* const factor = code ? (parseInt(code.slice(-1)) % 5) + 8 : 10
Factor(code) ==
    IF code = "" THEN 10 ELSE (DigitValue(CharAt(code, Len(code))) % 5) + 8

getMock(code) ==
    [i \in 1..Len(SAMPLE_TIMESERIES) |->
        [SAMPLE_TIMESERIES[i] EXCEPT
            !.persondays = RoundDiv(SAMPLE_TIMESERIES[i].persondays * Factor(code), 10),
            !.expenditure = RoundDiv(SAMPLE_TIMESERIES[i].expenditure * Factor(code), 10)]]

series1 == getMock(d1)
series2 == getMock(d2)

\* onChange of the first <select>: setD1(e.target.value)
SetD1(code) ==
    /\ route = "/compare"
    /\ code \in SelectOptions \ {d1}
    /\ d1' = code
    /\ notice' = ""
    /\ UNCHANGED <<d2, dashVars, geolocation, inflight, nextAct>>
    /\ UNCHANGED <<appVars, stateCmpVars, fmtVars>>

\* onChange of the second <select>: setD2(e.target.value)
SetD2(code) ==
    /\ route = "/compare"
    /\ code \in SelectOptions \ {d2}
    /\ d2' = code
    /\ notice' = ""
    /\ UNCHANGED <<d1, dashVars, geolocation, inflight, nextAct>>
    /\ UNCHANGED <<appVars, stateCmpVars, fmtVars>>

\* --------------------------------------------------------------------- App
Routes == {"/", "/state-comparison", "/compare", "/about", "/contact"}

\* The paths the Header links to.
LinkTargets == {"/", "/state-comparison", "/compare", "/about"}

\* onClick of the language button: setLang(lang === 'hi' ? 'en' : 'hi')
ToggleLang ==
    /\ ~EffectPending
    /\ lang' = IF lang = "hi" THEN "en" ELSE "hi"
    /\ notice' = ""
    /\ UNCHANGED <<route, dashVars, geolocation, inflight, nextAct>>
    /\ UNCHANGED <<stateCmpVars, compareVars, fmtVars>>

\* A click on a Header link: the element of the old route unmounts and loses
\* its state, the element of the new route mounts with its initial state.  The
\* callbacks of the requests a Dashboard issued keep the setters of that
\* Dashboard, which is gone: they are no longer live.
Navigate(to) ==
    /\ ~EffectPending
    /\ to \in LinkTargets \ {route}
    /\ route' = to
    /\ district' = ""
    /\ districtInfo' = Null
    /\ timeseries' = SAMPLE_TIMESERIES
    /\ inflight' = {[r EXCEPT !.live = FALSE] : r \in inflight}
    /\ selectedYears' = InitialYears
    /\ data' = EmptyObject
    /\ d1' = ""
    /\ d2' = ""
    /\ notice' = ""
    /\ UNCHANGED <<lang, geolocation, nextAct, fmtVars>>

\* ------------------------------------------------------------ formatNumber
\* A JavaScript number is [num |-> n], n an integer; an absent value is Null or
\* Undefined.
JsNumber(n) == [num |-> n]

Crore == 10000000
Lakh == 100000

RECURSIVE Pow2(_)
Pow2(k) == IF k = 0 THEN 1 ELSE 2 * Pow2(k - 1)

\* floor(log2(m / 20)) for m >= 20
BinaryExponent(m) == CHOOSE e \in 0..30 : 20 * Pow2(e) <= m /\ m < 20 * Pow2(e + 1)

\* The double n / unit, n / unit = m / 20 with m odd, lies exactly halfway
\* between two one-decimal values only on paper: the quotient is first rounded
\* to the nearest double (53-bit significand), and toFixed then rounds that
\* double, picking the larger candidate on an exact tie.  The double is
\* M / 2^(52 - e) with M the integer nearest to m * 2^(50 - e) / 5, so the sign
\* of its error is decided by m * 2^(50 - e) mod 5: remainder 0, the double is
\* exact (tie, larger candidate); 1 or 2, it lies below; 3 or 4, above.
HalfwayRoundsUp(m) ==
    LET e == BinaryExponent(m)
        rem == ((m % 5) * (Pow2((50 - e) % 4) % 5)) % 5
    IN  rem \in {0, 3, 4}

\* (n / unit).toFixed(1) for an integer n >= unit: the number of tenths.
Tenths(n, unit) ==
    LET step == unit \div 10
        q == n \div step
        r == n % step
    IN  IF 2 * r < step THEN q
        ELSE IF 2 * r > step THEN q + 1
        ELSE IF HalfwayRoundsUp(2 * q + 1) THEN q + 1 ELSE q

toFixed1(n, unit) ==
    ToString(Tenths(n, unit) \div 10) \o "." \o ToString(Tenths(n, unit) % 10)

\* Three digits, zero-padded: a group after the separator.
Pad3(k) == IF k < 10 THEN "00" \o ToString(k) ELSE IF k < 100 THEN "0" \o ToString(k) ELSE ToString(k)

\* n.toLocaleString() for an integer |n| < 1,000,000 in a locale that groups
\* by three with a comma (en-US, en-IN and hi-IN agree below 100,000).
toLocaleString(n) ==
    LET a == IF n < 0 THEN -n ELSE n
        sign == IF n < 0 THEN "-" ELSE ""
    IN  IF a < 1000 THEN sign \o ToString(a)
        ELSE sign \o ToString(a \div 1000) \o "," \o Pad3(a % 1000)

\* Faulty variant of formatNumber: the thresholds are compared with > for >=.
formatNumberStrict(v) ==
    IF v = Null \/ v = Undefined THEN "--"
    ELSE IF v.num > Crore THEN toFixed1(v.num, Crore) \o " Cr"
    ELSE IF v.num > Lakh THEN toFixed1(v.num, Lakh) \o " L"
    ELSE toLocaleString(v.num)

formatNumber(v) ==
    IF v = Null \/ v = Undefined THEN "--"
    ELSE IF v.num >= Crore THEN toFixed1(v.num, Crore) \o " Cr"
    ELSE IF v.num >= Lakh THEN toFixed1(v.num, Lakh) \o " L"
    ELSE toLocaleString(v.num)

\* A field of the snapshot as the argument KpiCard's caller hands to formatNumber.
KpiValue(info, field) ==
    IF field \in DOMAIN info THEN JsNumber(info[field]) ELSE Undefined

\* ------------------------------------------------------- rendered labels
\* The user-facing labels each component renders, in document order, as a
\* function of the language flag l.  Data (district names, codes, numbers) is
\* not a label.
HeaderLabels(l) ==
    << "MG",
       "MGNREGA -- District View",
       "Simple, local-friendly insights",
       IF l = "hi" THEN "Mukhya Prishth" ELSE "Home",
       IF l = "hi" THEN "Rajya Tulna" ELSE "State Comparison",
       IF l = "hi" THEN "Tulna" ELSE "Compare",
       IF l = "hi" THEN "Jankari" ELSE "About",
       IF l = "hi" THEN "EN" ELSE "Hindi" >>

DistrictSelectorLabels == << "Select District", "-- Choose district --", "Detect my district" >>

\* The three KpiCards of the Dashboard.
KpiCards(l, info) ==
    << [title |-> IF l = "hi" THEN "Kul Vyakti" ELSE "Total Individuals",
        value |-> formatNumber(KpiValue(info, "Total_Individuals_Worked")),
        hint  |-> IF l = "hi" THEN "Kul logon ne kaam kiya" ELSE "Total individuals worked"],
       [title |-> IF l = "hi" THEN "Kul Kharch (Lakh)" ELSE "Total Expenditure",
        value |-> "Rs " \o formatNumber(KpiValue(info, "Total_Exp")),
        hint  |-> IF l = "hi" THEN "Kul Kharch" ELSE "Total exp (last month)"],
       [title |-> IF l = "hi" THEN "Ausat Dinon/Gharelu" ELSE "Avg days/HH",
        value |-> Prop(info, "Average_days_of_employment_provided_per_Household"),
        hint  |-> IF l = "hi" THEN "Ausat rojgar din" ELSE "Average days of employment"] >>

DashboardLabels(l, code, info) ==
    << IF l = "hi" THEN "Jila Pradarshan" ELSE "District Performance" >>
    \o DistrictSelectorLabels
    \o (IF code = "" THEN << "Select a district or use Detect my district to begin." >> ELSE << >>)
    \o (IF info = Null \/ info = Undefined THEN << >>
        ELSE << KpiCards(l, info)[1].title, KpiCards(l, info)[1].hint,
                KpiCards(l, info)[2].title, KpiCards(l, info)[2].hint,
                KpiCards(l, info)[3].title, KpiCards(l, info)[3].hint,
                IF l = "hi" THEN "Masik Vyakti-din (Persondays)" ELSE "Monthly Persondays",
                IF l = "hi" THEN "Masik Kharch" ELSE "Monthly Expenditure",
                IF l = "hi" THEN "Saransh" ELSE "Summary",
                IF l = "hi" THEN "Yah data sarvajanik srot se liya gaya hai ..."
                ELSE "This data is sourced from public APIs ..." >>)

\* StateComparison takes no lang prop.
StateComparisonLabels ==
    << "State Performance Comparison", "Monthly Expenditure", "Total Households Worked" >>

CompareLabels(l) ==
    << IF l = "hi" THEN "Jila Tulna" ELSE "Compare Districts",
       IF l = "hi" THEN "Pahla Jila" ELSE "First district",
       "Select district", "Monthly persondays",
       IF l = "hi" THEN "Doosra Jila" ELSE "Second district",
       "Select district", "Monthly persondays",
       "Side-by-side numbers", "District A: ", "District B: ",
       "Tip: compare persondays and expenditure to see workload vs spend." >>

AboutLabels(l) ==
    << IF l = "hi" THEN "MGNREGA kya hai?" ELSE "What is MGNREGA?",
       IF l = "hi" THEN "MGNREGA ek gramin rojgar guarantee yojana hai ..."
       ELSE "MGNREGA is a rural employment guarantee scheme ..." >>

ContactLabels(l) ==
    << IF l = "hi" THEN "Sampark karen" ELSE "Contact / Feedback",
       IF l = "hi" THEN "Saral pratikriya form"
       ELSE "Simple feedback form -- stores to backend or sends email.",
       IF l = "hi" THEN "Naam" ELSE "Name",
       IF l = "hi" THEN "Mobail / Eemel" ELSE "Mobile / Email",
       IF l = "hi" THEN "Sandesh" ELSE "Message",
       IF l = "hi" THEN "Jama karen" ELSE "Submit" >>

FooterLabels == << "Built for Bihar -- demo UI - Replace mock data with backend API for full app" >>

\* Everything App renders for path p: Header, the element of the route, footer.
AppLabels(l, p, code, info) ==
    HeaderLabels(l)
    \o (CASE p = "/" -> DashboardLabels(l, code, info)
          [] p = "/state-comparison" -> StateComparisonLabels
          [] p = "/compare" -> CompareLabels(l)
          [] p = "/about" -> AboutLabels(l)
          [] OTHER -> ContactLabels(l))
    \o FooterLabels

\* ------------------------------------------------------------ specification
\* The page is loaded at any of its paths, on a device with or without
\* geolocation; every component starts from its useState initial values.
InitApp ==
    /\ lang = "en"
    /\ route \in Routes
    /\ district = ""
    /\ districtInfo = Null
    /\ timeseries = SAMPLE_TIMESERIES
    /\ geolocation \in BOOLEAN
    /\ inflight = {}
    /\ nextAct = 1
    /\ notice = ""
    /\ selectedYears = InitialYears
    /\ data = EmptyObject
    /\ d1 = ""
    /\ d2 = ""

Init ==
    /\ InitApp
    /\ fmtIn = Undefined
    /\ fmtOut = ""

Next ==
    \/ \E code \in UserOptions : SelectDistrict(code)
    \/ \E r \in Outstanding("data") : \E body \in Responses(r.code) : FetchSuccess(r, body)
    \/ \E r \in Outstanding("data") : \E cause \in FetchFailures : FetchFail(r, cause)
    \/ Detect
    \/ \E r \in Outstanding("position") : PositionError(r)
    \/ \E r \in Outstanding("position") : PositionSuccess(r)
    \/ \E r \in Outstanding("geocode") : \E jd \in GeoBodies : GeocodeResolve(r, jd)
    \/ \E r \in Outstanding("geocode") : \E cause \in GeocodeFailures : GeocodeFail(r, cause)
    \/ StateComparisonEffect
    \/ \E year \in Years : ToggleYear(year)
    \/ \E code \in UserOptions : SetD1(code)
    \/ \E code \in UserOptions : SetD2(code)
    \/ ToggleLang
    \/ \E to \in LinkTargets : Navigate(to)

Spec == Init /\ [][Next]_vars

\* The Compare page alone, loaded at /compare, with every option of its two
\* selects.
InitCompare == Init /\ route = "/compare"

NextCompare ==
    \/ \E code \in SelectOptions : SetD1(code)
    \/ \E code \in SelectOptions : SetD2(code)
    \/ ToggleLang

SpecCompare == InitCompare /\ [][NextCompare]_vars

\* formatNumber alone: an argument is drawn, and the call returns.
FormatNumbers ==
    {0, 7, 999, 1000, 1234, 12345, 15209, 90928, 99999, -5, -1234,
     100000, 100001, 149999, 150000, 1696959, 3443327, 9949999, 9950000, 9999999,
     10000000, 10000001, 10499999, 10500001, 99999999, 1000000000, 2000000000}
    \cup {5000 * (2 * j + 1) + k : j \in 10..25, k \in {-1, 0}}
    \cup {5000 * (2 * j + 1) : j \in 990..999}
    \cup {500000 * (2 * j + 1) + k : j \in 10..25, k \in {0, 1}}
    \cup {500000 * (2 * j + 1) : j \in 190..199}

FormatInputs == {Null, Undefined} \cup {JsNumber(n) : n \in FormatNumbers}

InitFormat ==
    /\ InitApp /\ route = "/" /\ geolocation
    /\ fmtIn \in FormatInputs
    /\ fmtOut = ""

FormatCall ==
    /\ fmtOut = ""
    /\ fmtOut' = formatNumber(fmtIn)
    /\ UNCHANGED <<fmtIn, dashVars, geolocation, inflight, nextAct, notice>>
    /\ UNCHANGED <<appVars, stateCmpVars, compareVars>>

SpecFormat == InitFormat /\ [][FormatCall]_vars

\* ================================================================ properties
\* The properties about the Dashboard speak of the Dashboard that issued the
\* request: a request is live while that Dashboard is mounted.  The callbacks of
\* a request whose Dashboard was unmounted by a navigation still run (the alert
\* is raised), but their state updates are dropped.

\* The data requests that resolve in this step (none or one).
SameRequest(r, q) == q.act = r.act /\ q.kind = r.kind /\ q.code = r.code
StillOutstanding(r) == \E q \in inflight' : SameRequest(r, q)

\* C1: when the data request a mounted Dashboard issued for a district code
\* fails, whatever the cause, the alert "Failed to fetch live data, showing
\* sample instead." is raised and afterwards the snapshot holds the six sample
\* indicators 90928 / 87155 / 15209 / 1696959 / 39 / 100.74 (with the name of
\* the requested district) and the time-series is SAMPLE_TIMESERIES.
C1_FallbackOnFailure ==
    [][\A r \in Outstanding("data") : \A cause \in FetchFailures :
          FetchFail(r, cause) =>
             /\ notice' = "Failed to fetch live data, showing sample instead."
             /\ r.live =>
                  /\ districtInfo'.Total_Individuals_Worked = 90928
                  /\ districtInfo'.Total_Households_Worked = 87155
                  /\ districtInfo'.Total_Exp = 15209
                  /\ districtInfo'.Women_Persondays = 1696959
                  /\ districtInfo'.Average_days_of_employment_provided_per_Household = 39
                  /\ districtInfo'.percentage_payments_gererated_within_15_days = <<100, 74>>
                  /\ \E i \in 1..Len(SAMPLE_DISTRICTS) :
                        /\ SAMPLE_DISTRICTS[i].district_code = r.code
                        /\ SAMPLE_DISTRICTS[i].district_name = districtInfo'.district_name
                  /\ DOMAIN districtInfo' =
                        {"district_name", "Total_Individuals_Worked", "Total_Households_Worked",
                         "Total_Exp", "Women_Persondays",
                         "Average_days_of_employment_provided_per_Household",
                         "percentage_payments_gererated_within_15_days"}
                  /\ timeseries' = SAMPLE_TIMESERIES]_vars

\* The request for NALANDA has just failed while PATNA is selected: the notice
\* is up and the fallback snapshot, named NALANDA, is held with the sample series.
C1_Witness ==
    /\ route = "/"
    /\ notice = FetchFailedNotice
    /\ "Women_Persondays" \in DOMAIN districtInfo
    /\ districtInfo.district_name = "NALANDA"
    /\ timeseries = SAMPLE_TIMESERIES
    /\ district = "0501"

\* C2: a data request is never cancelled (it stays outstanding until its own
\* response resolves), and every response of a request of the mounted Dashboard
\* is applied when it resolves, whichever district is selected then and
\* whatever else is outstanding; nothing else changes the held data of a mounted
\* Dashboard.  So once all have resolved the held snapshot and series are those
\* of the response that resolved last.
C2_LastResponseWins ==
    [][/\ \A r \in Outstanding("data") :
             \/ StillOutstanding(r)
             \/ \E body \in Responses(r.code) : FetchSuccess(r, body)
             \/ \E cause \in FetchFailures : FetchFail(r, cause)
       /\ \A r \in Outstanding("data") : (r.live /\ ~StillOutstanding(r)) =>
             /\ \A body \in Responses(r.code) : FetchSuccess(r, body) =>
                   /\ districtInfo' = body.kpis
                   /\ timeseries' = IF "timeseries" \in DOMAIN body
                                    THEN body.timeseries ELSE << >>
             /\ \A cause \in FetchFailures : FetchFail(r, cause) =>
                   /\ districtInfo' = FallbackInfo(r.code)
                   /\ timeseries' = SAMPLE_TIMESERIES
       /\ (route = "/" /\ route' = "/" /\ \A r \in Outstanding("data") : StillOutstanding(r))
             => UNCHANGED <<districtInfo, timeseries>>]_vars

\* NALANDA is selected, both requests have resolved, and the data held is
\* PATNA's: the response to the first selection resolved last.
C2_Witness ==
    /\ route = "/"
    /\ district = "0502"
    /\ districtInfo = ServerKpis("0501")
    /\ timeseries = ServerSeries("0501")
    /\ inflight = {}
    /\ nextAct = 3

\* C3: every selection of a district in the selector adds exactly one new data
\* request, for that district's code, whatever was fetched before; a failed
\* request is removed and nothing is issued in its place; and a data request
\* only ever appears in a step that changes the selected district.
C3_FreshRequestPerSelection ==
    [][/\ \A code \in DistrictCodes : SelectDistrict(code) =>
             \E q \in inflight' :
                /\ q \notin inflight
                /\ q.kind = "data" /\ q.code = code /\ q.live
                /\ \A r \in inflight : r.act # q.act
                /\ inflight' = inflight \cup {q}
       /\ \A r \in Outstanding("data") : \A cause \in FetchFailures :
             FetchFail(r, cause) => inflight' = inflight \ {r}
       /\ (\E q \in inflight' : q.kind = "data" /\ \A r \in inflight : ~SameRequest(r, q))
             => district' # district]_vars

\* PATNA's payload is held and a second, live request for PATNA is out.
C3_Witness ==
    /\ route = "/"
    /\ districtInfo = ServerKpis("0501")
    /\ inflight = {DataRequest(2, "0501")}

\* C4: no user action ever has two requests outstanding on its behalf; in
\* particular the reverse-geocoding request of a detection is gone before its
\* district data request is out.
C4_OneRequestPerAction ==
    \A r \in inflight : \A q \in inflight : r.act = q.act => r = q

\* The data request of a successful detection is out: PURBI CHAMPARAN is not
\* among the options the user picks, so only a detection selects it.
C4_Witness ==
    /\ route = "/"
    /\ district = "0513"
    /\ \E r \in inflight : r.kind = "data" /\ r.code = "0513" /\ r.live

\* s without its commas.
RECURSIVE Ungrouped(_)
Ungrouped(s) ==
    IF Len(s) = 0 THEN ""
    ELSE (IF CharAt(s, 1) = "," THEN "" ELSE CharAt(s, 1)) \o Ungrouped(SubSeq(s, 2, Len(s)))

\* t tenths written with one decimal.
OneDecimal(t) == ToString(t \div 10) \o "." \o ToString(t % 10)

\* t tenths of `unit` is a nearest one-decimal value to n / unit.
NearestTenth(t, n, unit) ==
    LET step == unit \div 10
    IN  2 * (n - t * step) <= step /\ 2 * (t * step - n) <= step

\* C5: once formatNumber has returned for the argument v: for absent v (null or
\* undefined) the result is the placeholder; for n >= 10,000,000 it is n /
\* 10,000,000 rounded to one decimal (a nearest one-decimal value) followed by
\* " Cr"; for 100,000 <= n < 10,000,000 it is n / 100,000 rounded to one decimal
\* followed by " L"; for n < 100,000 it is the digits of n, grouped by three.
C5_FormatNumber ==
    fmtOut # "" =>
        IF fmtIn \in {Null, Undefined} THEN fmtOut = "--"
        ELSE LET n == fmtIn.num
                 lo == IF n >= 10000000 THEN n \div 1000000 ELSE n \div 10000
             IN  /\ n >= 10000000 =>
                       \E t \in {lo, lo + 1} :
                          /\ NearestTenth(t, n, 10000000)
                          /\ fmtOut = OneDecimal(t) \o " Cr"
                 /\ (100000 <= n /\ n < 10000000) =>
                       \E t \in {lo, lo + 1} :
                          /\ NearestTenth(t, n, 100000)
                          /\ fmtOut = OneDecimal(t) \o " L"
                 /\ n < 100000 =>
                       /\ Ungrouped(fmtOut) = ToString(n)
                       /\ \A i \in 1..Len(fmtOut) :
                             CharAt(fmtOut, i) = "," <=> (i = Len(fmtOut) - 3 /\ i > 1
                                                           /\ CharAt(fmtOut, i - 1) # "-")

\* formatNumber returned "1.1 Cr" for 11,500,000: 1.15 lies halfway between
\* 1.1 and 1.2, and the double nearest to it lies below.
C5_Witness == fmtIn = JsNumber(11500000) /\ fmtOut = "1.1 Cr"

\* C6: whatever years are selected, after any checkbox toggles, the combined
\* rows of StateComparison are 12, one per month in the order Apr..Mar; each row
\* has exactly the key "month" and one key per selected year, whose value is
\* the expenditure of the held entry of that year for that month, or 0 when
\* the held data has none (as for Jan, Feb, Mar of the mock data, and for every
\* month before the mount effect has loaded the data).
C6_CombinedRows ==
    route = "/state-comparison" =>
        LET rows == combinedData(selectedYears, data)
            order == <<"Apr", "May", "Jun", "Jul", "Aug", "Sep",
                       "Oct", "Nov", "Dec", "Jan", "Feb", "Mar">>
        IN  /\ Len(rows) = 12
            /\ \A i \in 1..12 :
                  /\ DOMAIN rows[i] = {"month"} \cup Range(selectedYears)
                  /\ rows[i]["month"] = order[i]
                  /\ \A y \in Range(selectedYears) :
                        LET entries == IF y \in DOMAIN data
                                       THEN {j \in 1..Len(data[y]) : data[y][j].month = order[i]}
                                       ELSE {}
                        IN  IF entries = {} THEN rows[i][y] = 0
                            ELSE \A j \in entries : rows[i][y] = data[y][j].expenditure
            /\ (data # EmptyObject /\ "2023-24" \in Range(selectedYears)) =>
                  /\ rows[1]["2023-24"] = 12000 /\ rows[9]["2023-24"] = 15209
                  /\ \A i \in 10..12 : rows[i]["2023-24"] = 0
            /\ (data # EmptyObject /\ "2024-25" \in Range(selectedYears)) =>
                  /\ rows[1]["2024-25"] = 13000 /\ rows[9]["2024-25"] = 16209
                  /\ \A i \in 10..12 : rows[i]["2024-25"] = 0

\* Both years are selected again after both were toggled off, in the other
\* order, with the mock data loaded.
C6_Witness ==
    /\ route = "/state-comparison"
    /\ selectedYears = <<"2024-25", "2023-24">>
    /\ data = mockStateData

\* The last digit of each district code.
LastDigit ==
    ("0501" :> 1) @@ ("0502" :> 2) @@ ("0506" :> 6) @@ ("0518" :> 8) @@ ("0544" :> 4) @@
    ("0504" :> 4) @@ ("0508" :> 8) @@ ("0513" :> 3) @@ ("0520" :> 0) @@ ("0541" :> 1)

\* series is the base series scaled by ((d % 5) + 8) / 10 and rounded.
ScaledBy(series, d) ==
    LET f == (d % 5) + 8
    IN  /\ Len(series) = Len(SAMPLE_TIMESERIES)
        /\ \A i \in 1..Len(series) :
              LET b == SAMPLE_TIMESERIES[i]
              IN  /\ DOMAIN series[i] = DOMAIN b
                  /\ series[i].month = b.month
                  /\ series[i].households = b.households
                  /\ 10 * series[i].persondays - 5 <= b.persondays * f
                  /\ b.persondays * f <= 10 * series[i].persondays + 5
                  /\ 10 * series[i].expenditure - 5 <= b.expenditure * f
                  /\ b.expenditure * f <= 10 * series[i].expenditure + 5

\* C7: for a district code ending in digit d each compared series is the base
\* series with persondays and expenditure multiplied by ((d % 5) + 8) / 10 and
\* rounded, month and households unchanged; and a change of one district
\* leaves the other series as it was.
C7_MockSeries ==
    /\ [](/\ d1 # "" => ScaledBy(series1, LastDigit[d1])
          /\ d2 # "" => ScaledBy(series2, LastDigit[d2]))
    /\ [][/\ d1' # d1 => series2' = series2
          /\ d2' # d2 => series1' = series1]_vars

\* PURBI CHAMPARAN (factor 11) against ROHTAS (factor 12): December persondays
\* 3443327 * 1.1 rounds to 3787660, December expenditure 15209 * 1.2 to 18251.
C7_Witness ==
    /\ route = "/compare"
    /\ d1 = "0513" /\ d2 = "0504"
    /\ series1[9].persondays = 3787660
    /\ series2[9].expenditure = 18251

\* For each reverse-geocoding answer, the positions in the district list of
\* the districts whose name's first token occurs in the answer's locality when
\* both are compared in upper case.
TokenHits ==
    [jd \in GeoBodies |->
        {i \in 1..Len(SAMPLE_DISTRICTS) :
            includes(toUpperCase(LocalityOf(jd)),
                     toUpperCase(FirstToken(SAMPLE_DISTRICTS[i].district_name)))}]

\* C8: when the reverse-geocoding answer of a detection of the mounted
\* Dashboard has been read, the selected district becomes the first district in
\* list order whose name's first token occurs, case-insensitively, in the
\* locality ("PATNA DIVISION" selects "0501"); with no such district (as for
\* "UNKNOWNPLACE") the selection is left as it was and the user is told to
\* select from the list.
C8_DetectionMatch ==
    [][\A r \in Outstanding("geocode") : \A jd \in GeoBodies :
          (r.live /\ GeocodeResolve(r, jd)) =>
             LET hits == TokenHits[jd]
             IN  /\ hits # {} =>
                       /\ district' = SAMPLE_DISTRICTS[Min(hits)].district_code
                       /\ notice' = ""
                 /\ hits = {} =>
                       /\ district' = district
                       /\ notice' = "Could not auto-detect district. Please select from list."
                 /\ jd = [locality |-> "PATNA DIVISION"] => district' = "0501"
                 /\ jd = [locality |-> "Nalanda"] => district' = "0502"
                 /\ jd = [locality |-> "UNKNOWNPLACE"] =>
                       /\ district' = district
                       /\ notice' = "Could not auto-detect district. Please select from list."]_vars

\* A detection selected PURBI CHAMPARAN by its first token, and a later
\* detection found no match: the selection stayed and the user was told.
C8_Witness ==
    /\ route = "/"
    /\ district = "0513"
    /\ notice = NoMatchNotice

\* C9 (as claimed): a toggle of the language flag switches every user-facing
\* label on screen to its other variant and leaves the selected district, the
\* snapshot, the time-series and the comparison selections unchanged.
C9_AllLabelsSwitch ==
    [][lang' # lang =>
          /\ \A i \in 1..Len(AppLabels(lang, route, district, districtInfo)) :
                AppLabels(lang', route', district', districtInfo')[i]
                   # AppLabels(lang, route, district, districtInfo)[i]
          /\ UNCHANGED <<district, districtInfo, timeseries, selectedYears, data, d1, d2>>]_vars

\* C10: when "Detect my district" is pressed on a device without geolocation,
\* when the position request is denied, and when reverse geocoding fails, the
\* user is notified and nothing else happens: the selected district, the
\* snapshot and the time-series stay, and no request is issued.
C10_DetectFailures ==
    [][/\ (Detect /\ ~geolocation) =>
             /\ notice' = "Geolocation not available on this device"
             /\ UNCHANGED <<district, districtInfo, timeseries, inflight>>
       /\ \A r \in Outstanding("position") : PositionError(r) =>
             /\ notice' = "Location permission denied or unavailable"
             /\ UNCHANGED <<district, districtInfo, timeseries>>
             /\ inflight' = inflight \ {r}
       /\ \A r \in Outstanding("geocode") : \A cause \in GeocodeFailures :
             GeocodeFail(r, cause) =>
                /\ notice' = "Auto-detect failed -- please select manually."
                /\ UNCHANGED <<district, districtInfo, timeseries>>
                /\ inflight' = inflight \ {r}]_vars

\* The position request of a detection was denied while PATNA's data was
\* shown: the user was told, PATNA stays selected, nothing is outstanding.
C10_Witness ==
    /\ route = "/"
    /\ notice = PositionDeniedNotice
    /\ district = "0501"
    /\ districtInfo = ServerKpis("0501")
    /\ inflight = {}

\* The step resolves the live data request r with a success whose payload
\* replaces both the snapshot and the series.
AppliesPayload(r) ==
    \E body \in Responses(r.code) :
       /\ FetchSuccess(r, body)
       /\ districtInfo' = body.kpis
       /\ timeseries' = IF "timeseries" \in DOMAIN body THEN body.timeseries ELSE << >>

\* The step resolves the live data request r with a failure that replaces both
\* the snapshot and the series with the fallback.
AppliesFallback(r) ==
    /\ \E cause \in FetchFailures : FetchFail(r, cause)
    /\ districtInfo' = FallbackInfo(r.code)
    /\ timeseries' = SAMPLE_TIMESERIES

\* C11: a selection in the district selector, of a district or of the empty
\* option, leaves the held snapshot and time-series as they were, and the empty
\* option issues no request; while the Dashboard stays mounted the snapshot or
\* the series changes only in a step in which a data request of that Dashboard
\* resolves, a success putting the response payload in both and a failure the
\* fallback in both.  So between a selection and the resolution of its request
\* the previously held data stays, unless an earlier request resolves meanwhile.
C11_DataChangesOnlyOnResolution ==
    [][/\ \A code \in SelectOptions : SelectDistrict(code) =>
             /\ UNCHANGED <<districtInfo, timeseries>>
             /\ code = "" => UNCHANGED <<inflight, nextAct>>
       /\ (/\ route = "/" /\ route' = "/"
           /\ <<districtInfo, timeseries>>' # <<districtInfo, timeseries>>)
             => \E r \in Outstanding("data") :
                   /\ r.live
                   /\ ~StillOutstanding(r)
                   /\ AppliesPayload(r) \/ AppliesFallback(r)]_vars

\* PATNA has been selected and its request is out, while the snapshot and the
\* series shown are still those fetched for NALANDA.
C11_Witness ==
    /\ route = "/"
    /\ district = "0501"
    /\ inflight = {DataRequest(2, "0501")}
    /\ districtInfo = ServerKpis("0502")
    /\ timeseries = ServerSeries("0502")

====
